---- MODULE Spec2Model ----
(***************************************************************************)
(* Model of scripts/release.go: the release-asset uploader.                *)
(*                                                                         *)
(* Strings are sequences of one-character strings, so that suffix tests,   *)
(* strings.Index and slicing are computed rather than assumed.             *)
(***************************************************************************)
EXTENDS Integers, Sequences, FiniteSets, TLC

(***************************************************************************)
(* Bounds of the model.                                                    *)
(***************************************************************************)
MaxTemplateLen == 3   \* longest upload_url string a 200 response carries
MaxEntries == 2       \* most entries in one listing of ./bin
MaxFileLen == 1       \* longest file content, in bytes
MaxRedirects == 1     \* most 307/308 hops the HTTP client follows per call

(***************************************************************************)
(* Program constants (release.go:32-45, 175).                              *)
(***************************************************************************)
envActions == "GITHUB_ACTIONS"
envAPIURL == "GITHUB_API_URL"
envRef == "GITHUB_REF_NAME"
envRepo == "GITHUB_REPOSITORY"
envToken == "GITHUB_TOKEN"
envActionsValTrue == <<"t", "r", "u", "e">>
contentTypeZIP == "application/zip"
contentTypeTARGZ == "application/gzip"
binDir == "./bin"
StatusOK == 200
StatusCreated == 201

\* The suffixes tested in main's loop.
SuffixZIP == <<".", "z", "i", "p">>
SuffixTARGZ == <<".", "t", "a", "r", ".", "g", "z">>

\* The order of the key array in clientFromEnv.
RequiredKeys == <<envAPIURL, envRef, envRepo, envToken>>
EnvKeys == {envActions, envAPIURL, envRef, envRepo, envToken}

NoError == [kind |-> "nil"]
NoClient == [kind |-> "nil"]

(***************************************************************************)
(* Library string functions, computed on character sequences.              *)
(***************************************************************************)
\* strings.HasSuffix
HasSuffix(s, suffix) ==
    /\ Len(s) >= Len(suffix)
    /\ SubSeq(s, Len(s) - Len(suffix) + 1, Len(s)) = suffix

\* The 1-based position of the first ch in s, Len(s) + 1 when there is none.
FirstAt(s, ch) ==
    IF \E k \in 1..Len(s) : s[k] = ch
    THEN CHOOSE k \in 1..Len(s) : s[k] = ch /\ \A j \in 1..(k - 1) : s[j] # ch
    ELSE Len(s) + 1

\* strings.Index(s, ch) for a one-byte needle: 0-based, -1 when absent.
Index(s, ch) == IF FirstAt(s, ch) > Len(s) THEN -1 ELSE FirstAt(s, ch) - 1

\* The Go slice expression s[:i].
SliceTo(s, i) == SubSeq(s, 1, i)

Letters == {"a", "e", "h", "k", "o", "r", "t", "u", "v"}
HexChars == {"a", "e"}

\* net/url getScheme: the characters before the first ':' when they are all
\* letters; a leading ':' is the "missing protocol scheme" error; any other
\* character before a ':' means the URL has no scheme.
SchemeLen(s) ==
    IF \A k \in 1..Len(s) : s[k] \in Letters THEN 0
    ELSE IF s[CHOOSE m \in 1..Len(s) :
                s[m] \notin Letters /\ \A n \in 1..(m - 1) : s[n] \in Letters] = ":"
    THEN FirstAt(s, ":") - 1
    ELSE 0

MissingScheme(s) == Len(s) >= 1 /\ s[1] = ":"

\* net/url unescape: a '%' not followed by two hex digits is an error.
BadEscape(s) ==
    \E k \in 1..Len(s) :
        /\ s[k] = "%"
        /\ ~(k + 2 <= Len(s) /\ s[k + 1] \in HexChars /\ s[k + 2] \in HexChars)

\* The part of s before the first ch, and the part from that ch on (ch
\* included); without a ch, all of s and the empty string.
UpTo(s, ch) == SubSeq(s, 1, FirstAt(s, ch) - 1)

From(s, ch) == SubSeq(s, FirstAt(s, ch), Len(s))

\* net/url validOptionalPort applied to what follows the last ':' of a host:
\* the port must be empty or all digits (the model's strings have no digits).
BadPort(host) ==
    \E k \in 1..Len(host) :
        /\ host[k] = ":"
        /\ \A j \in (k + 1)..Len(host) : host[j] # ":"
        /\ k < Len(host)

NoURL == [kind |-> "nil"]

StartsWithSlash(rest) == Len(rest) >= 1 /\ rest[1] = "/"

HasAuthority(rest) == Len(rest) >= 2 /\ rest[1] = "/" /\ rest[2] = "/"

\* url.Parse once scheme, host and path are split: the port must be valid
\* and host and path must unescape.
ParseHier(scheme, host, path) ==
    IF BadPort(host)
    THEN [err |-> [kind |-> "invalid port"], u |-> NoURL]
    ELSE IF BadEscape(host) \/ BadEscape(path)
    THEN [err |-> [kind |-> "invalid URL escape"], u |-> NoURL]
    ELSE [err |-> NoError,
          u |-> [scheme |-> scheme, opaque |-> <<>>, host |-> host,
                 path |-> path, query |-> <<>>]]

\* url.Parse once the scheme is split off. A rest that does not start with
\* '/' is opaque after a scheme (not unescaped) and a relative path without
\* one (no colon allowed in its first segment); a rest starting with "//"
\* has an authority up to the next '/'.
ParseRest(scheme, rest) ==
    IF scheme # <<>> /\ ~StartsWithSlash(rest)
    THEN [err |-> NoError,
          u |-> [scheme |-> scheme, opaque |-> rest, host |-> <<>>,
                 path |-> <<>>, query |-> <<>>]]
    ELSE IF scheme = <<>> /\ ~StartsWithSlash(rest) /\ Index(UpTo(rest, "/"), ":") >= 0
    THEN [err |-> [kind |-> "first path segment in URL cannot contain colon"],
          u |-> NoURL]
    ELSE IF HasAuthority(rest)
    THEN ParseHier(scheme, UpTo(SubSeq(rest, 3, Len(rest)), "/"),
                   From(SubSeq(rest, 3, Len(rest)), "/"))
    ELSE ParseHier(scheme, <<>>, rest)

\* url.Parse, for strings without '?', '#' or control bytes.
UrlParse(s) ==
    IF MissingScheme(s)
    THEN [err |-> [kind |-> "missing protocol scheme"], u |-> NoURL]
    ELSE IF SchemeLen(s) > 0
    THEN ParseRest(SubSeq(s, 1, SchemeLen(s)), SubSeq(s, SchemeLen(s) + 2, Len(s)))
    ELSE ParseRest(<<>>, s)

(***************************************************************************)
(* clientFromEnv (release.go:137-162).                                     *)
(***************************************************************************)
\* Mutant: the loop stops one key short, so GITHUB_TOKEN is never tested.
FirstMissing_SkipToken(env, k) ==
    LET missing == {j \in k..(Len(RequiredKeys) - 1) : env[RequiredKeys[j]] = <<>>}
    IN  IF missing = {} THEN 0 ELSE CHOOSE j \in missing : \A m \in missing : j <= m

\* Mutant: the loop does not return at the first empty key but remembers the
\* last one.
FirstMissing_Last(env, k) ==
    LET missing == {j \in k..Len(RequiredKeys) : env[RequiredKeys[j]] = <<>>}
    IN  IF missing = {} THEN 0 ELSE CHOOSE j \in missing : \A m \in missing : j >= m

\* The for loop over the key array: the first key whose value is empty, or 0.
RECURSIVE FirstMissing(_, _)
FirstMissing(env, k) ==
    IF k > Len(RequiredKeys) THEN 0
    ELSE IF env[RequiredKeys[k]] = <<>> THEN k
    ELSE FirstMissing(env, k + 1)

\* The three error returns of clientFromEnv.
NotRunning == [c |-> NoClient, err |-> [kind |-> "not running under github actions"]]

NotPresent(m) ==
    [c |-> NoClient,
     err |-> [kind |-> "expected environment variable not present",
              key |-> RequiredKeys[m]]]

BadBaseURL(e) == [c |-> NoClient, err |-> [kind |-> "parsing base URL", cause |-> e]]

\* Mutant: repo and ref are filled from each other's variable.
ClientOf_RefRepoSwapped(env, p) ==
    IF p.err # NoError THEN BadBaseURL(p.err)
    ELSE [c |-> [baseURL |-> p.u,
                 repo |-> env[envRef],
                 ref |-> env[envRepo],
                 token |-> env[envToken]],
          err |-> NoError]

\* The end of clientFromEnv, p being url.Parse(env(envAPIURL)) (line 152-161).
ClientOf(env, p) ==
    IF p.err # NoError THEN BadBaseURL(p.err)
    ELSE [c |-> [baseURL |-> p.u,
                 repo |-> env[envRepo],
                 ref |-> env[envRef],
                 token |-> env[envToken]],
          err |-> NoError]

\* Mutant: the required keys are tested before the GITHUB_ACTIONS flag.
clientFromEnv_KeysFirst(env) ==
    IF FirstMissing(env, 1) # 0 THEN NotPresent(FirstMissing(env, 1))
    ELSE IF env[envActions] # envActionsValTrue THEN NotRunning
    ELSE ClientOf(env, UrlParse(env[envAPIURL]))

clientFromEnv(env) ==
    IF env[envActions] # envActionsValTrue THEN NotRunning
    ELSE IF FirstMissing(env, 1) # 0 THEN NotPresent(FirstMissing(env, 1))
    ELSE ClientOf(env, UrlParse(env[envAPIURL]))

(***************************************************************************)
(* The template truncation of client.uploadURL (release.go:129-132).       *)
(***************************************************************************)
\* Mutant: the string is cut at the last '{' instead of the first.
StripTemplate_LastBrace(uploadURL) ==
    LET braces == {k \in 1..Len(uploadURL) : uploadURL[k] = "{"}
    IN  IF braces = {} THEN uploadURL
        ELSE SubSeq(uploadURL, 1, (CHOOSE k \in braces : \A j \in braces : k >= j) - 1)

StripTemplate(uploadURL) ==
    IF Index(uploadURL, "{") >= 0 THEN SliceTo(uploadURL, Index(uploadURL, "{")) ELSE uploadURL

(***************************************************************************)
(* Inputs: the environment, the listing of ./bin, file contents and the    *)
(* server's answers.                                                       *)
(***************************************************************************)
\* os.Getenv yields "" for an unset variable.
EnvValues ==
    [x \in EnvKeys |->
        CASE x = envActions -> {<<>>, envActionsValTrue, <<"t">>}
          [] x = envAPIURL -> {<<>>, <<"h", ":", "/", "/", "a">>, <<":", "h">>}
          [] x = envRef -> {<<>>, <<"v">>, <<"%">>}
          [] x = envRepo -> {<<>>, <<"o">>}
          [] x = envToken -> {<<>>, <<"k">>}]

Environments == {e \in [EnvKeys -> UNION {EnvValues[x] : x \in EnvKeys}] :
                    \A x \in EnvKeys : e[x] \in EnvValues[x]}

\* Sequences over S of length at most n.
SeqsUpTo(S, n) == UNION {[1..m -> S] : m \in 0..n}

\* upload_url values of a 200 response: a host part followed by a tail that
\* may hold template braces.
TemplateHeads == {<<>>, <<"h", ":", "/", "/", "a">>}
TemplateChars == {"h", ":", "{"}
Templates == {h \o t : h \in TemplateHeads, t \in SeqsUpTo(TemplateChars, MaxTemplateLen)}

\* The upload_url values the runs of the whole of main are given: one that
\* resolves to a usable URL, one that resolves to a URL without scheme, and
\* one that does not parse.
ReleaseTemplates ==
    {<<"h", ":", "/", "/", "a", "{", "h", "}">>, <<"h", "{">>, <<":">>}

\* File names that can occur in ./bin, in the byte order os.ReadDir sorts by.
NameList ==
    << <<".", "z", "i", "p">>,
       <<"a", ".", "z", "i", "p">>,
       <<"b", ".", "t", "a", "r", ".", "g", "z">>,
       <<"c", ".", "t", "x", "t">>,
       <<"d">> >>

\* The members of a set of positions of NameList, in increasing order.
RECURSIVE Ascending(_)
Ascending(S) ==
    IF S = {} THEN <<>>
    ELSE LET m == CHOOSE a \in S : \A b \in S : a <= b
         IN  <<m>> \o Ascending(S \ {m})

\* os.ReadDir results: distinct names sorted by name, each a directory or not.
Listings ==
    {LET order == Ascending(S)
     IN  [k \in 1..Len(order) |-> [name |-> NameList[order[k]], isDir |-> order[k] \in D]] :
        <<S, D>> \in {sd \in (SUBSET (1..Len(NameList))) \X (SUBSET (1..Len(NameList))) :
                        Cardinality(sd[1]) <= MaxEntries /\ sd[2] \subseteq sd[1]}}

Bytes == {0, 255}
FileContents == SeqsUpTo(Bytes, MaxFileLen)

\* What an exchange can end in: no response (a transport error) or a status.
NoResponse == 0
Finals == {NoResponse, StatusOK, StatusCreated, 404}

\* What json Decode makes of the body of a 200 response.
Decodings(T) ==
    {[ok |-> FALSE, UploadURL |-> <<>>]} \cup {[ok |-> TRUE, UploadURL |-> t] : t \in T}

(***************************************************************************)
(* http.DefaultClient.Do, as far as release.go depends on it.              *)
(***************************************************************************)
NilBody == [kind |-> "nil"]

\* The transport sends only http(s) URLs with a host; the scheme "h" stands
\* for http.
CanSend(u) == u.scheme = <<"h">> /\ u.host # <<>>

\* The message the client transmits for req: first as the caller built it (a
\* request whose Body is nil has no body and an outgoing length of 0,
\* whatever its ContentLength field says), and after a 307/308 redirect with
\* the body GetBody returns and the ContentLength of the original request.
\* data is what opening the file of GetBody yields.
WireMessage(req, hop, data) ==
    [method |-> req.method,
     url |-> IF hop = 0 THEN req.url ELSE [redirected |-> hop],
     contentType |-> req.ContentType,
     contentLength |-> IF hop = 0
                       THEN (IF req.Body = NilBody THEN 0 ELSE req.ContentLength)
                       ELSE (IF req.GetBody = NilBody THEN 0 ELSE req.ContentLength),
     body |-> IF hop = 0
              THEN (IF req.Body = NilBody THEN <<>> ELSE req.Body.data)
              ELSE (IF req.GetBody = NilBody THEN <<>> ELSE data),
     hop |-> hop]

\* hops redirects are followed, then the exchange ends in final.
Do(req, hops, final, data) ==
    IF ~CanSend(req.url)
    THEN [err |-> [kind |-> "unsupported protocol scheme"], status |-> NoResponse,
          sent |-> <<>>]
    ELSE [err |-> IF final = NoResponse THEN [kind |-> "transport"] ELSE NoError,
          status |-> final,
          sent |-> [k \in 1..(hops + 1) |-> WireMessage(req, k - 1, data)]]

(***************************************************************************)
(* client.uploadURL (release.go:95-135).                                   *)
(***************************************************************************)
\* path.Join("/repos", c.repo, "releases/tags", c.ref)
ReleasePath(c) ==
    <<"/", "r", "e", "p", "o", "s", "/">> \o c.repo
        \o <<"/", "r", "e", "l", "e", "a", "s", "e", "s", "/", "t", "a", "g", "s", "/">>
        \o c.ref

\* c.baseURL.Parse(ref), p being url.Parse(ref): the reference is resolved
\* against the base URL.
Resolve(base, p) ==
    IF p.err # NoError THEN p
    ELSE [err |-> NoError,
          u |-> [scheme |-> base.scheme, opaque |-> <<>>, host |-> base.host,
                 path |-> p.u.path, query |-> <<>>]]

BaseParse(base, ref) == Resolve(base, UrlParse(ref))

\* The request of the lookup (line 102-107).
LookupRequest(c, u) ==
    [method |-> "GET", url |-> u,
     Authorization |-> <<"token: ", c.token>>,
     Accept |-> "application/vnd.github.v3+json",
     ContentType |-> "", ContentLength |-> 0,
     Body |-> NilBody, GetBody |-> NilBody]

\* The status test of the lookup.
LookupStatusOK(status) == status = StatusOK

\* What a call that sent req returns: the URL, the error, and the exchange.
Returned(u, e, req, resp) ==
    [url |-> u, err |-> e, reqs |-> <<req>>, sent |-> resp.sent, status |-> resp.status]

\* What a call that sent nothing returns.
ReturnedEarly(e) ==
    [url |-> <<>>, err |-> e, reqs |-> <<>>, sent |-> <<>>, status |-> NoResponse]

\* client.uploadURL from the response on (line 110-134). decoded is the
\* outcome of json Decode on the body of a 200 response: ok, and the
\* upload_url string.
uploadURLResponse(req, resp, decoded) ==
    IF resp.err # NoError
    THEN Returned(<<>>, [kind |-> "do request", cause |-> resp.err], req, resp)
    ELSE IF ~LookupStatusOK(resp.status)
    THEN Returned(<<>>, [kind |-> "unexpected status code", status |-> resp.status],
                  req, resp)
    ELSE IF ~decoded.ok
    THEN Returned(<<>>, [kind |-> "decoding response"], req, resp)
    ELSE Returned(StripTemplate(decoded.UploadURL), NoError, req, resp)

uploadURLSend(req, hops, final, decoded) ==
    uploadURLResponse(req, Do(req, hops, final, <<>>), decoded)

uploadURLParsed(c, p, hops, final, decoded) ==
    IF p.err # NoError
    THEN ReturnedEarly([kind |-> "parse url", cause |-> p.err])
    ELSE uploadURLSend(LookupRequest(c, p.u), hops, final, decoded)

uploadURL(c, hops, final, decoded) ==
    uploadURLParsed(c, BaseParse(c.baseURL, ReleasePath(c)), hops, final, decoded)

(***************************************************************************)
(* client.upload (release.go:54-93).                                       *)
(***************************************************************************)
\* filepath.Join(binDir, name) cleans "./bin" to "bin"; filepath.Base gives
\* the last element back.
FilepathJoin(dir, name) ==
    [dir |-> IF dir = "./bin" THEN "bin" ELSE dir, base |-> name]

FilepathBase(path) == path.base

\* q := u.Query(); q.Set("name", name); u.RawQuery = q.Encode()
SetName(u, name) ==
    [u EXCEPT !.query =
        SelectSeq(u.query, LAMBDA kv : kv.key # "name")
            \o <<[key |-> "name", value |-> name]>>]

\* Mutant: the name parameter is not put into the URL.
UploadRequest_NoName(c, u, name, path, contentType, size) ==
    [method |-> "POST", url |-> u,
     Authorization |-> <<"token: ", c.token>>,
     Accept |-> "application/vnd.github.v3+json",
     ContentType |-> contentType, ContentLength |-> size,
     Body |-> NilBody, GetBody |-> [kind |-> "open", path |-> path]]

\* The request upload builds (release.go:70-80): NewRequestWithContext is
\* given a nil body; only ContentLength and GetBody are set afterwards.
UploadRequest(c, u, name, path, contentType, size) ==
    [method |-> "POST", url |-> SetName(u, name),
     Authorization |-> <<"token: ", c.token>>,
     Accept |-> "application/vnd.github.v3+json",
     ContentType |-> contentType, ContentLength |-> size,
     Body |-> NilBody, GetBody |-> [kind |-> "open", path |-> path]]

\* Mutant: any 2xx status is taken for success.
UploadStatusOK_Any2xx(status) == status >= 200 /\ status < 300

\* The status test of the upload.
UploadStatusOK(status) == status = StatusCreated

\* client.upload from the response on (line 83-92).
uploadResponse(req, resp) ==
    IF resp.err # NoError
    THEN Returned(<<>>, [kind |-> "do request", cause |-> resp.err], req, resp)
    ELSE IF ~UploadStatusOK(resp.status)
    THEN Returned(<<>>, [kind |-> "unexpected status code", status |-> resp.status],
                  req, resp)
    ELSE Returned(<<>>, NoError, req, resp)

uploadSend(req, hops, final, data) == uploadResponse(req, Do(req, hops, final, data))

\* client.upload from the parsed URL on (line 63-82).
uploadParsed(c, p, path, contentType, data, hops, final) ==
    IF p.err # NoError
    THEN ReturnedEarly([kind |-> "parse url", cause |-> p.err])
    ELSE uploadSend(UploadRequest(c, p.u, FilepathBase(path), path, contentType, Len(data)),
                    hops, final, data)

\* statOK and data are the file system's answers for path: whether os.Stat
\* succeeds, and the bytes of the file (its size is Len(data)).
upload(c, upURL, path, contentType, statOK, data, hops, final) ==
    IF ~statOK
    THEN ReturnedEarly([kind |-> "stat asset"])
    ELSE uploadParsed(c, UrlParse(upURL), path, contentType, data, hops, final)

(***************************************************************************)
(* main (release.go:164-198).                                              *)
(***************************************************************************)
VARIABLES
    env,       \* the process environment
    pc,        \* where main is
    c,         \* the client, once clientFromEnv returned one
    url,       \* main's url: the resolved upload URL
    template,  \* the upload_url the lookup decoded (body.UploadURL)
    entries,   \* the listing os.ReadDir returned
    idx,       \* position of the loop in entries (1-based)
    reqs,      \* the requests handed to http.DefaultClient.Do, in order
    wire,      \* wire[k]: the messages the HTTP client transmitted for reqs[k]
    resps,     \* resps[k]: how the exchange of reqs[k] ended
    calls,     \* the calls of c.upload, in order, with their results
    files,     \* the bytes of each file c.upload was called on and could stat
    errs,      \* the non-nil errors returned to main, in order
    logged,    \* the messages of log.Fatalf
    exitCode   \* the exit status; Running until the process exits

vars == <<env, pc, c, url, template, entries, idx, reqs, wire, resps, calls, files,
          errs, logged, exitCode>>

Running == -1

Init ==
    /\ env \in Environments
    /\ pc = "clientFromEnv"
    /\ c = NoClient
    /\ url = <<>>
    /\ template = <<>>
    /\ entries = <<>>
    /\ idx = 1
    /\ reqs = <<>>
    /\ wire = <<>>
    /\ resps = <<>>
    /\ calls = <<>>
    /\ files = <<>>
    /\ errs = <<>>
    /\ logged = <<>>
    /\ exitCode = Running

\* log.Fatalf: the message is written and the process exits with status 1.
Fatalf(prefix, e) ==
    /\ logged' = Append(logged, [msg |-> prefix, err |-> e])
    /\ exitCode' = 1
    /\ pc' = "fatal"

\* main's "if err != nil { log.Fatalf(...) }" after a call that returned e;
\* next is where main goes on otherwise.
Check(e, prefix, next) ==
    /\ errs' = IF e # NoError THEN Append(errs, e) ELSE errs
    /\ IF e # NoError
       THEN Fatalf(prefix, e)
       ELSE pc' = next /\ UNCHANGED <<logged, exitCode>>

\* The exchanges a call made: its requests, their messages and their ends.
Exchange(r, decodable) ==
    /\ reqs' = reqs \o r.reqs
    /\ wire' = IF r.reqs # <<>> THEN Append(wire, r.sent) ELSE wire
    /\ resps' = IF r.reqs # <<>>
                THEN Append(resps, [status |-> r.status, decodable |-> decodable])
                ELSE resps

\* main's use of what clientFromEnv returned.
ClientFromEnvOutcome(r) ==
    /\ c' = r.c
    /\ Check(r.err, "creating client", "uploadURL")

\* main, line 166-169.
MainClientFromEnv ==
    /\ pc = "clientFromEnv"
    /\ ClientFromEnvOutcome(clientFromEnv(env))
    /\ UNCHANGED <<env, url, template, entries, idx, reqs, wire, resps, calls, files>>

\* main's use of what c.uploadURL returned.
UploadURLOutcome(r, decoded) ==
    /\ Exchange(r, decoded.ok)
    /\ url' = r.url
    /\ template' = IF r.err = NoError THEN decoded.UploadURL ELSE template
    /\ Check(r.err, "creating upload url", "readDir")

\* main, line 170-173, with the upload_url of a 200 response drawn from T.
UploadURLStep(T) ==
    /\ pc = "uploadURL"
    /\ \E hops \in 0..MaxRedirects, final \in Finals, decoded \in Decodings(T) :
          UploadURLOutcome(uploadURL(c, hops, final, decoded), decoded)
    /\ UNCHANGED <<env, c, entries, idx, calls, files>>

MainUploadURL == UploadURLStep(ReleaseTemplates)

\* main, line 175-179.
MainReadDir ==
    /\ pc = "readDir"
    /\ \/ /\ Check([kind |-> "readdir"], "reading dir ./bin", "loop")
          /\ UNCHANGED entries
       \/ /\ entries' \in Listings
          /\ Check(NoError, "reading dir ./bin", "loop")
    /\ UNCHANGED <<env, c, url, template, idx, reqs, wire, resps, calls, files>>

\* The content type main picks for a name, "" for none (line 185-190).
ContentTypeOf(name) ==
    IF HasSuffix(name, SuffixZIP) THEN contentTypeZIP
    ELSE IF HasSuffix(name, SuffixTARGZ) THEN contentTypeTARGZ
    ELSE ""

\* Mutant: the IsDir test is missing.
Selected_IgnoringIsDir(e) == ContentTypeOf(e.name) # ""

\* Whether the loop body goes on to call c.upload for e (line 181-193).
Selected(e) == ~e.isDir /\ ContentTypeOf(e.name) # ""

\* Mutant: a failed upload is logged but the loop goes on.
UploadCheck_LogOnly(e) ==
    /\ errs' = IF e # NoError THEN Append(errs, e) ELSE errs
    /\ logged' = IF e # NoError
                 THEN Append(logged, [msg |-> "upload file", err |-> e])
                 ELSE logged
    /\ pc' = "loop"
    /\ UNCHANGED exitCode

\* main's test of the error c.upload returned (line 194-196).
UploadCheck(e) == Check(e, "upload file", "loop")

\* main's use of what c.upload returned for the entry at idx.
UploadOutcome(path, ct, statOK, data, r) ==
    /\ Exchange(r, FALSE)
    /\ calls' = Append(calls, [pos |-> idx, uploadURL |-> url, path |-> path,
                               contentType |-> ct, err |-> r.err])
    /\ files' = IF statOK THEN Append(files, [path |-> path, data |-> data]) ELSE files
    /\ UploadCheck(r.err)

\* The loop body for entry e (line 181-196).
LoopBody(e, path) ==
    IF ~Selected(e)
    THEN /\ pc' = "loop"
         /\ UNCHANGED <<reqs, wire, resps, calls, files, errs, logged, exitCode>>
    ELSE \E statOK \in BOOLEAN, data \in FileContents,
            hops \in 0..MaxRedirects, final \in Finals :
            UploadOutcome(path, ContentTypeOf(e.name), statOK, data,
                          upload(c, url, path, ContentTypeOf(e.name), statOK, data,
                                 hops, final))

\* One iteration of the for loop (line 180-197).
MainLoop ==
    /\ pc = "loop"
    /\ idx <= Len(entries)
    /\ LoopBody(entries[idx], FilepathJoin(binDir, entries[idx].name))
    /\ idx' = idx + 1
    /\ UNCHANGED <<env, c, url, template, entries>>

\* The loop is exhausted and main returns: the process exits with status 0.
MainReturn ==
    /\ pc = "loop"
    /\ idx > Len(entries)
    /\ pc' = "done"
    /\ exitCode' = 0
    /\ UNCHANGED <<env, c, url, template, entries, idx, reqs, wire, resps, calls, files,
                   errs, logged>>

Next ==
    \/ MainClientFromEnv
    \/ MainUploadURL
    \/ MainReadDir
    \/ MainLoop
    \/ MainReturn

Spec == Init /\ [][Next]_vars

\* The configuration and lookup steps alone, with every upload_url up to
\* MaxTemplateLen answered.
ResolveUploadURL == UploadURLStep(Templates)

NextResolve ==
    \/ MainClientFromEnv
    \/ ResolveUploadURL

SpecResolve == Init /\ [][NextResolve]_vars

TypeOK ==
    /\ pc \in {"clientFromEnv", "uploadURL", "readDir", "loop", "done", "fatal"}
    /\ exitCode \in {Running, 0, 1}
    /\ idx \in 1..(Len(entries) + 1)
    /\ Len(reqs) = Len(wire) /\ Len(reqs) = Len(resps)

(***************************************************************************)
(* Vocabulary of the properties.                                           *)
(***************************************************************************)
IsPost(k) == reqs[k].method = "POST"
IsGet(k) == reqs[k].method = "GET"
Posts == {k \in 1..Len(reqs) : IsPost(k)}
Gets == {k \in 1..Len(reqs) : IsGet(k)}

\* name ends in suffix, stated by concatenation.
EndsWith(name, suffix) == \E k \in 0..Len(name) : name = SubSeq(name, 1, k) \o suffix

DotZip == <<".", "z", "i", "p">>
DotTarGz == <<".", "t", "a", "r", ".", "g", "z">>

\* The uploads the listing l calls for: name and content type, in order.
RECURSIVE ExpectedUploads(_)
ExpectedUploads(l) ==
    IF l = <<>> THEN <<>>
    ELSE LET e == Head(l)
             this == IF e.isDir THEN <<>>
                     ELSE IF EndsWith(e.name, DotZip)
                     THEN <<[name |-> e.name, contentType |-> "application/zip"]>>
                     ELSE IF EndsWith(e.name, DotTarGz)
                     THEN <<[name |-> e.name, contentType |-> "application/gzip"]>>
                     ELSE <<>>
         IN  this \o ExpectedUploads(Tail(l))

\* The upload attempts made so far: name and content type, in order.
Attempts ==
    [k \in 1..Len(calls) |->
        [name |-> calls[k].path.base, contentType |-> calls[k].contentType]]

NoUploadFailed == \A k \in 1..Len(calls) : calls[k].err = NoError

\* The bytes of the file at path, as the call of c.upload found them.
FileData(path) == (CHOOSE f \in {files[k] : k \in 1..Len(files)} : f.path = path).data

CIFlagSet == env[envActions] = <<"t", "r", "u", "e">>
CheckOrder == <<"GITHUB_API_URL", "GITHUB_REF_NAME", "GITHUB_REPOSITORY", "GITHUB_TOKEN">>
Empty(k) == env[CheckOrder[k]] = <<>>
EnvComplete == CIFlagSet /\ \A k \in 1..4 : ~Empty(k)
EnvValid == EnvComplete /\ UrlParse(env["GITHUB_API_URL"]).err = NoError
Resolved == pc # "clientFromEnv"
ConfigError == logged # <<>> /\ logged[1].msg = "creating client"
NamesKey(k) ==
    /\ ConfigError
    /\ logged[1].err.kind = "expected environment variable not present"
    /\ logged[1].err.key = CheckOrder[k]

(***************************************************************************)
(* C1: when no upload fails, the upload attempts made by main are exactly  *)
(* the non-directory entries of the listing whose name ends in ".zip" or   *)
(* ".tar.gz", in listing order, each once, with application/zip and        *)
(* application/gzip respectively; other entries cause no attempt.          *)
(***************************************************************************)
C1_AttemptsAreFilteredListing ==
    NoUploadFailed => Attempts = ExpectedUploads(SubSeq(entries, 1, idx - 1))

\* A finished run that skipped a directory named like a zip archive and
\* uploaded the one .tar.gz file after it.
C1_Witness ==
    /\ pc = "done"
    /\ Len(entries) = 2
    /\ entries[1].isDir /\ EndsWith(entries[1].name, DotZip)
    /\ Len(calls) = 1
    /\ calls[1].contentType = "application/gzip"

(***************************************************************************)
(* C2: uploads happen one after another in listing order, and the first    *)
(* failed upload (any response status other than 201 included) ends the    *)
(* run: a failed attempt is the last attempt, and the process has exited.  *)
(***************************************************************************)
C2_FirstFailureAborts ==
    /\ \A k \in 1..Len(calls) :
          /\ calls[k].err # NoError => k = Len(calls) /\ pc = "fatal" /\ exitCode = 1
          /\ k > 1 => calls[k - 1].pos < calls[k].pos
          /\ calls[k].pos < idx
    /\ \A k \in Posts :
          resps[k].status # 201 => k = Len(reqs) /\ pc = "fatal" /\ exitCode = 1

\* The upload of the first entry got a status other than 201 while a second
\* archive was still to come.
C2_Witness ==
    /\ pc = "fatal"
    /\ Len(calls) = 1 /\ calls[1].pos = 1
    /\ calls[1].err # NoError /\ calls[1].err.kind = "unexpected status code"
    /\ Len(entries) = 2 /\ ~entries[2].isDir /\ EndsWith(entries[2].name, DotTarGz)

(***************************************************************************)
(* C3: a run ends either with a fatal log message and a non-zero status,   *)
(* on any configuration, lookup, directory-read or upload error, or with   *)
(* status 0, and then only after the configuration resolved, the lookup    *)
(* got a decodable 200 and every matching file got a 201; no error is      *)
(* swallowed.                                                              *)
(***************************************************************************)
C3_ExitOutcomes ==
    /\ (exitCode = 0) = (pc = "done")
    /\ (exitCode = 1) = (pc = "fatal")
    /\ (pc = "fatal") = (Len(logged) = 1)
    /\ Len(logged) <= 1
    /\ errs # <<>> => pc = "fatal" /\ Len(errs) = 1 /\ logged[1].err = errs[1]
    /\ (Resolved /\ ~EnvValid) => pc = "fatal"
    /\ \A k \in 1..Len(resps) :
          \/ IsGet(k) /\ resps[k].status = 200 /\ resps[k].decodable
          \/ IsPost(k) /\ resps[k].status = 201
          \/ pc = "fatal"
    /\ pc = "done" =>
          /\ EnvValid /\ c # NoClient
          /\ errs = <<>>
          /\ Gets = {1} /\ resps[1].status = 200 /\ resps[1].decodable
          /\ LET want == ExpectedUploads(entries)
             IN  /\ Cardinality(Posts) = Len(want)
                 /\ \A j \in 1..Len(want) :
                       /\ IsPost(j + 1)
                       /\ reqs[j + 1].url.query = <<[key |-> "name", value |-> want[j].name]>>
                       /\ resps[j + 1].status = 201

\* A run that exited 0 after uploading two files.
C3_Witness == pc = "done" /\ exitCode = 0 /\ Cardinality(Posts) = 2

(***************************************************************************)
(* C4: every POST that client.upload sends carries the file's bytes as its *)
(* body, the caller's content type, and a content length equal to the      *)
(* file's size. Stated for the POSTs the server answered, which were       *)
(* certainly sent.                                                         *)
(***************************************************************************)
C4_PostCarriesFileBytes ==
    \A k \in Posts :
        resps[k].status # NoResponse =>
        \A m \in 1..Len(wire[k]) :
            /\ wire[k][m].body = FileData(reqs[k].GetBody.path)
            /\ wire[k][m].contentLength = Len(FileData(reqs[k].GetBody.path))
            /\ wire[k][m].contentType = reqs[k].ContentType

(***************************************************************************)
(* C5: the lookup GET is issued at most once and before any upload POST;   *)
(* every upload is given the URL it resolved, every POST targets that URL  *)
(* with only the name parameter (the file's base name) added, and no POST  *)
(* is issued when configuration or lookup failed.                          *)
(***************************************************************************)
C5_UploadURLFixed ==
    /\ Cardinality(Gets) <= 1
    /\ \A k \in Gets : k = 1
    /\ \A j \in 1..Len(calls) : calls[j].uploadURL = url
    /\ Posts # {} =>
          /\ ~ConfigError /\ c # NoClient
          /\ Gets = {1} /\ resps[1].status = 200 /\ resps[1].decodable
          /\ url = StripTemplate(template)
    /\ \A k \in Posts :
          /\ [reqs[k].url EXCEPT !.query = <<>>] = UrlParse(url).u
          /\ \E j \in 1..Len(calls) :
                /\ reqs[k].GetBody.path = calls[j].path
                /\ reqs[k].url.query = <<[key |-> "name", value |-> calls[j].path.base]>>
    /\ \A j, k \in Posts :
          [reqs[j].url EXCEPT !.query = <<>>] = [reqs[k].url EXCEPT !.query = <<>>]

\* Two POSTs for two different files after one GET.
C5_Witness ==
    /\ Len(reqs) = 3 /\ Posts = {2, 3}
    /\ reqs[2].url.query # reqs[3].url.query

(***************************************************************************)
(* C6: whenever GITHUB_ACTIONS is unset or not exactly "true",             *)
(* clientFromEnv fails with the "not running" error and returns no client, *)
(* whatever the other variables are.                                       *)
(***************************************************************************)
C6_NotRunning ==
    (Resolved /\ ~CIFlagSet) =>
        /\ pc = "fatal"
        /\ c = NoClient
        /\ ConfigError
        /\ logged[1].err = [kind |-> "not running under github actions"]

\* The flag has a wrong value while the token is empty and the API URL is
\* malformed.
C6_Witness ==
    /\ pc = "fatal"
    /\ env[envActions] = <<"t">>
    /\ env[envToken] = <<>>
    /\ env[envAPIURL] = <<":", "h">>

(***************************************************************************)
(* C7 as stated: whenever exactly one of the four required variables is    *)
(* empty, clientFromEnv fails with an error identifying that variable.     *)
(***************************************************************************)
C7_AsStated ==
    \A k \in 1..4 :
        (Resolved /\ Empty(k) /\ \A j \in (1..4) \ {k} : ~Empty(j)) => NamesKey(k)

(***************************************************************************)
(* C7 amended: when GITHUB_ACTIONS is "true" and exactly one of the four   *)
(* required variables is empty, clientFromEnv fails with an error          *)
(* identifying that variable, whatever the values of the other three.      *)
(***************************************************************************)
C7_Amended ==
    \A k \in 1..4 :
        (Resolved /\ CIFlagSet /\ Empty(k) /\ \A j \in (1..4) \ {k} : ~Empty(j)) =>
            pc = "fatal" /\ c = NoClient /\ NamesKey(k)

\* Only the token is empty, and the API URL is malformed.
C7_Witness ==
    /\ pc = "fatal"
    /\ CIFlagSet
    /\ Empty(4) /\ ~Empty(1) /\ ~Empty(2) /\ ~Empty(3)
    /\ env[envAPIURL] = <<":", "h">>

(***************************************************************************)
(* C8: when the flag is "true" and one or more of the four variables are   *)
(* empty, the error names the first empty one in the order API URL, ref,   *)
(* repository, token; nothing else is reported and no client is returned.  *)
(***************************************************************************)
C8_FirstEmptyNamed ==
    \A k \in 1..4 :
        (Resolved /\ CIFlagSet /\ Empty(k) /\ \A j \in 1..(k - 1) : ~Empty(j)) =>
            /\ pc = "fatal"
            /\ c = NoClient
            /\ NamesKey(k)
            /\ Len(logged) = 1 /\ Len(errs) = 1

\* The ref and the token are both empty.
C8_Witness ==
    /\ pc = "fatal"
    /\ CIFlagSet
    /\ ~Empty(1) /\ Empty(2) /\ ~Empty(3) /\ Empty(4)

(***************************************************************************)
(* C9: with a complete, valid environment clientFromEnv succeeds and the   *)
(* client holds repo, ref and token verbatim and the parsed API URL; in    *)
(* every other case it fails and returns no client.                        *)
(***************************************************************************)
C9_AllOrNothing ==
    Resolved =>
        IF EnvValid
        THEN /\ ~ConfigError
             /\ c = [baseURL |-> UrlParse(env["GITHUB_API_URL"]).u,
                     repo |-> env["GITHUB_REPOSITORY"],
                     ref |-> env["GITHUB_REF_NAME"],
                     token |-> env["GITHUB_TOKEN"]]
             /\ c.baseURL.scheme = <<"h">> /\ c.baseURL.host = <<"a">>
        ELSE /\ c = NoClient
             /\ ConfigError
             /\ pc = "fatal"

\* clientFromEnv has just returned a client.
C9_Witness == pc = "uploadURL" /\ c # NoClient /\ c.repo = <<"o">> /\ c.ref = <<"v">>

(***************************************************************************)
(* C10: the resolved endpoint is the part of the upload_url strictly       *)
(* before its first '{', so it contains no '{'; an upload_url without '{'  *)
(* is returned unchanged.                                                  *)
(***************************************************************************)
C10_CutAtFirstBrace ==
    pc = "readDir" =>
        /\ Len(url) <= Len(template)
        /\ url = SubSeq(template, 1, Len(url))
        /\ \A k \in 1..Len(url) : url[k] # "{"
        /\ Len(url) < Len(template) => template[Len(url) + 1] = "{"

\* An upload_url with two braces, cut at the first.
C10_Witness ==
    /\ pc = "readDir"
    /\ Cardinality({k \in 1..Len(template) : template[k] = "{"}) = 2
    /\ url = <<"h", ":", "/", "/", "a", "h">>

====
